---- MODULE Spec2Model ----
(***************************************************************************)
(* Model of src/main.py: the timetable pipeline                            *)
(*   main -> fetch_with_retry -> fetch_timetable_html                      *)
(*        -> extract_and_patch_svg -> build_html -> OUTPUT_FILE.write_text *)
(*                                                                         *)
(* The program is one asyncio task, so the model is one sequential         *)
(* process.  Its position is held by three program counters, one for each  *)
(* frame of the call stack: mpc (main), fpc (fetch_with_retry) and rpc     *)
(* (fetch_timetable_html).  Every await on the browser is a step whose     *)
(* outcome the environment chooses: success, a Playwright TimeoutError, or *)
(* another Playwright Error (navigation failure, page or browser closed).  *)
(* chromium.launch itself is taken to succeed: the launch and the          *)
(* configuration of the browser process are outside the modelled code.     *)
(***************************************************************************)
EXTENDS Integers, Sequences, FiniteSets, TLC

\* ------------------------------------------------------------------ bounds

\* MAX_RETRIES is explored over 0..MaxRetriesBound (main.py:17 sets 3).
MaxRetriesBound == 3
\* The dropdown holds 0..MaxItems entries, or about CLASS_INDEX_DEFAULT.
MaxItems == 2
\* Revisions of the page content a capture may see.
MaxRev == 2

\* ------------------------------------------------------- program constants

CLASS_INDEX_DEFAULT == 31
RETRY_DELAY == 10
SVG_WIDTH == 900
SVG_HEIGHT == 600

\* Values of the configured class ordinal that are explored.
ClassIndexValues == {-2, -1, 0, 1, CLASS_INDEX_DEFAULT}
\* Numbers of <li> entries query_selector_all may find.
ItemCounts == (0..MaxItems) \cup {CLASS_INDEX_DEFAULT, CLASS_INDEX_DEFAULT + 1}

VARIABLES
    MAX_RETRIES,   \* configuration (main.py:17), fixed during a run
    CLASS_INDEX,   \* configuration (main.py:11), fixed during a run
    mpc,           \* main: "start","fetch","extract","compose","publish","done","failed"
    raw_html,      \* main: the value fetch_with_retry returned
    svg_str,       \* main: the value extract_and_patch_svg returned
    document,      \* main: the value build_html returned
    uncaught,      \* the exception that left main (NoError while none did)
    output,        \* content of OUTPUT_FILE
    writes,        \* number of OUTPUT_FILE.write_text calls of this run
    fpc,           \* fetch_with_retry: "idle","for","call","sleep","done"
    attempt,       \* fetch_with_retry: the loop variable
    last_error,    \* fetch_with_retry: last_error
    rpc,           \* fetch_timetable_html: the step about to run, "idle" outside a call
    items,         \* fetch_timetable_html: len(items), -1 before the enumeration
    pending,       \* fetch_timetable_html: the exception in flight (NoError if none)
    result,        \* fetch_timetable_html: the value being returned
    browser,       \* fetch_timetable_html: the session `browser` names (0: none)
    clicked,       \* fetch_timetable_html: the subscripts of items clicked in this attempt
    open,          \* browser sessions launched and not closed
    launched,      \* number of browser sessions launched so far
    delays,        \* history: the asyncio.sleep durations taken, in order
    steps,         \* history: the steps the current attempt has started, in order
    failStep,      \* history: where and how the current attempt failed
    outcome,       \* history: what the last concluded attempt surfaced
    failures,      \* history: number of attempts that ended in an exception
    kindsSeen,     \* history: kinds of the errors attempts have surfaced
    succeeded,     \* history: some attempt of this run returned page HTML
    mismatchSeen,  \* history: some attempt of this run failed the item validation
    stages,        \* history: the stages main has entered, in order
    cancelled,     \* history: where the task was cancelled, and the counts then
    xpc,           \* function checks: "idle", "input", "once", "twice"
    xin,           \* function checks: the argument drawn
    xout,          \* function checks: the value of the first application
    xout2          \* function checks: the value of the second application

pipeVars == <<MAX_RETRIES, CLASS_INDEX, mpc, raw_html, svg_str, document, uncaught,
          output, writes, fpc, attempt, last_error, rpc, items, pending, result,
          browser, clicked, open, launched, delays, steps, failStep, outcome,
          failures, kindsSeen, succeeded, mismatchSeen, stages, cancelled>>

unitVars == <<xpc, xin, xout, xout2>>

vars == <<pipeVars, unitVars>>

cfgVars   == <<MAX_RETRIES, CLASS_INDEX>>
mainVars  == <<mpc, raw_html, svg_str, document, uncaught, output, writes, stages>>
loopVars  == <<fpc, attempt, last_error, delays>>
pageVars  == <<items, result, clicked>>
sessVars  == <<browser, open, launched>>
histVars  == <<outcome, failures, kindsSeen, succeeded>>
\* what no step of the pipeline changes, a cancellation apart
restVars  == <<cancelled, unitVars>>

\* ------------------------------------------------------------- exceptions

Err(k, m, x, y) == [kind |-> k, msg |-> m, a |-> x, b |-> y]

NoError == Err("none", "", 0, 0)

\* playwright TimeoutError raised by the awaited call of step s
PlaywrightTimeout(s) == Err("PlaywrightTimeout", s, 0, 0)

\* playwright Error that is not a TimeoutError
PlaywrightError(s) ==
    Err("PlaywrightError",
        IF s = "goto" THEN "net::ERR_CONNECTION_REFUSED"
                      ELSE "Target page, context or browser has been closed",
        0, 0)

\* the error the except clause raises in place of a TimeoutError
TimedOutError ==
    Err("RuntimeError", "Playwright timed out - the site may be slow or unreachable.", 0, 0)

\* the error of the failed validation: f"Expected at least {CLASS_INDEX + 1} classes, found {len(items)}"
MismatchError(n) ==
    Err("ValueError", "Expected at least {a} classes, found {b}", CLASS_INDEX + 1, n)

\* items[CLASS_INDEX] with a negative index below -len(items)
IndexError == Err("IndexError", "list index out of range", 0, 0)

\* the initial value of last_error
NoAttemptsError == Err("RuntimeError", "No attempts made", 0, 0)

NoSvgError == Err("ValueError", "No <svg> element found in page HTML", 0, 0)

WriteError == Err("OSError", "write_text failed", 0, 0)

\* asyncio.CancelledError, raised in the task at the await it is suspended in;
\* it derives from BaseException, not from Exception
CancelledError == Err("CancelledError", "", 0, 0)

\* ------------------------------------------------------------------ values

Html(s, r) == [svg |-> s, rev |-> r]
NoHtml == Html(FALSE, 0)
\* what page.content() may return
Pages == {Html(s, r) : s \in BOOLEAN, r \in 1..MaxRev}

SvgText(w, h, r) == [width |-> w, height |-> h, rev |-> r]
NoSvgText == SvgText(0, 0, 0)

Doc(s, u) == [svg |-> s, updated |-> u]
NoDoc == Doc(NoSvgText, "")
\* the snapshot a previous run left in OUTPUT_FILE
OldDoc == Doc(SvgText(SVG_WIDTH, SVG_HEIGHT, 0), "HH:MM / YYYY-MM-DD")
\* OUTPUT_FILE opened for writing and truncated, nothing written
EmptyFile == NoDoc

NoStep == [step |-> "none", how |-> "none"]

\* ------------------------------------------------------------ initial state

\* no function check is under way
UnitIdle ==
    /\ xpc = "idle"
    /\ xin = <<>>
    /\ xout = <<>>
    /\ xout2 = <<>>

NotCancelled == [at |-> "none", launched |-> 0, delays |-> 0]

\* the state of a run before main() is entered
RunInit ==
    /\ mpc = "start"
    /\ raw_html = NoHtml
    /\ svg_str = NoSvgText
    /\ document = NoDoc
    /\ uncaught = NoError
    /\ output = OldDoc
    /\ writes = 0
    /\ fpc = "idle"
    /\ attempt = 0
    /\ last_error = NoError
    /\ rpc = "idle"
    /\ items = -1
    /\ pending = NoError
    /\ result = NoHtml
    /\ browser = 0
    /\ clicked = {}
    /\ open = {}
    /\ launched = 0
    /\ delays = <<>>
    /\ steps = <<>>
    /\ failStep = NoStep
    /\ outcome = NoError
    /\ failures = 0
    /\ kindsSeen = {}
    /\ succeeded = FALSE
    /\ mismatchSeen = FALSE
    /\ stages = <<>>
    /\ cancelled = NotCancelled

Init ==
    /\ MAX_RETRIES \in 0..MaxRetriesBound
    /\ CLASS_INDEX \in ClassIndexValues
    /\ RunInit
    /\ UnitIdle

\* --------------------------------------------------- fetch_timetable_html

\* an exception raised inside the try block by step s
Raise(s, how, e) ==
    /\ rpc' = "except"
    /\ pending' = e
    /\ failStep' = [step |-> s, how |-> how]

\* an awaited browser call: it returns, exceeds its timeout, or fails otherwise
Await(s, next, hasTimeout) ==
    /\ fpc = "call"
    /\ rpc = s
    /\ steps' = Append(steps, s)
    /\ \/ rpc' = next /\ UNCHANGED <<pending, failStep>>
       \/ hasTimeout /\ Raise(s, "timeout", PlaywrightTimeout(s))
       \/ Raise(s, "error", PlaywrightError(s))
    /\ UNCHANGED <<cfgVars, restVars, mainVars, loopVars, sessVars, histVars>>

\* mutant: one browser shared by all attempts, launched by the first only
Launch_Shared ==
    /\ fpc = "call"
    /\ rpc = "launch"
    /\ launched' = IF launched = 0 THEN 1 ELSE launched
    /\ browser' = 1
    /\ open' = open \cup {1}
    /\ steps' = Append(steps, "launch")
    /\ rpc' = "new_page"
    /\ UNCHANGED <<cfgVars, restVars, mainVars, loopVars, pageVars, histVars, pending,
                   failStep, mismatchSeen>>

\* p.chromium.launch(...): a new browser session, bound to `browser`
Launch ==
    /\ fpc = "call"
    /\ rpc = "launch"
    /\ launched' = launched + 1
    /\ browser' = launched + 1
    /\ open' = open \cup {launched + 1}
    /\ steps' = Append(steps, "launch")
    /\ rpc' = "new_page"
    /\ UNCHANGED <<cfgVars, restVars, mainVars, loopVars, pageVars, histVars, pending,
                   failStep, mismatchSeen>>

\* browser.new_context(...) and context.new_page()
NewPage ==
    /\ Await("new_page", "goto", FALSE)
    /\ UNCHANGED <<pageVars, mismatchSeen>>

\* mutant: the trigger is clicked right after the navigation, without the wait
Goto_ClickAtOnce ==
    /\ Await("goto", "click_classes", TRUE)
    /\ UNCHANGED <<pageVars, mismatchSeen>>

\* page.goto(URL, timeout=60_000, wait_until="domcontentloaded")
Goto ==
    /\ Await("goto", "wait_classes", TRUE)
    /\ UNCHANGED <<pageVars, mismatchSeen>>

\* page.wait_for_selector("span[title='Classes']", timeout=30_000)
WaitClasses ==
    /\ Await("wait_classes", "click_classes", TRUE)
    /\ UNCHANGED <<pageVars, mismatchSeen>>

\* page.click("span[title='Classes']")
ClickClasses ==
    /\ Await("click_classes", "wait_panel", TRUE)
    /\ UNCHANGED <<pageVars, mismatchSeen>>

\* page.wait_for_selector(".dropDownPanel", timeout=30_000)
WaitPanel ==
    /\ Await("wait_panel", "query_items", TRUE)
    /\ UNCHANGED <<pageVars, mismatchSeen>>

\* items = page.query_selector_all(".dropDownPanel li")
QueryItems ==
    /\ Await("query_items", "validate", FALSE)
    /\ IF rpc' = "validate"
          THEN \E n \in ItemCounts : items' = n
          ELSE items' = items
    /\ UNCHANGED <<result, clicked, mismatchSeen>>

\* mutant: the comparison off by one (len(items) < CLASS_INDEX)
TooFewItems_OffByOne(n) == n < CLASS_INDEX

\* if len(items) <= CLASS_INDEX
TooFewItems(n) == n <= CLASS_INDEX

\* the validation of the configured ordinal against the items found
Validate ==
    /\ fpc = "call"
    /\ rpc = "validate"
    /\ steps' = Append(steps, "validate")
    /\ IF TooFewItems(items)
          THEN /\ Raise("validate", "mismatch", MismatchError(items))
               /\ mismatchSeen' = TRUE
          ELSE /\ rpc' = "click_item"
               /\ UNCHANGED <<pending, failStep, mismatchSeen>>
    /\ UNCHANGED <<cfgVars, restVars, mainVars, loopVars, pageVars, sessVars, histVars>>

\* items[CLASS_INDEX].click(): the subscript first, then the awaited click
ClickItem ==
    IF CLASS_INDEX < 0 - items
    THEN /\ fpc = "call"
         /\ rpc = "click_item"
         /\ steps' = Append(steps, "click_item")
         /\ Raise("click_item", "index", IndexError)
         /\ UNCHANGED <<cfgVars, restVars, mainVars, loopVars, pageVars, sessVars, histVars,
                        mismatchSeen>>
    ELSE /\ Await("click_item", "wait_svg", TRUE)
         /\ clicked' = clicked \cup {CLASS_INDEX}
         /\ UNCHANGED <<items, result, mismatchSeen>>

\* mutant: a timeout of the SVG wait is swallowed and the settle delay follows
WaitSvg_Blind ==
    /\ fpc = "call"
    /\ rpc = "wait_svg"
    /\ steps' = Append(steps, "wait_svg")
    /\ \/ rpc' = "settle" /\ UNCHANGED <<pending, failStep>>
       \/ /\ rpc' = "settle"
          /\ failStep' = [step |-> "wait_svg", how |-> "timeout"]
          /\ UNCHANGED pending
       \/ Raise("wait_svg", "error", PlaywrightError("wait_svg"))
    /\ UNCHANGED <<cfgVars, restVars, mainVars, loopVars, sessVars, histVars,
                   pageVars, mismatchSeen>>

\* page.wait_for_selector("svg", timeout=30_000)
WaitSvg ==
    /\ Await("wait_svg", "settle", TRUE)
    /\ UNCHANGED <<pageVars, mismatchSeen>>

\* page.wait_for_timeout(1_500)
Settle ==
    /\ Await("settle", "content", FALSE)
    /\ UNCHANGED <<pageVars, mismatchSeen>>

\* return await page.content()
Content ==
    /\ Await("content", "finally", FALSE)
    /\ IF rpc' = "finally"
          THEN \E h \in Pages : result' = h
          ELSE result' = result
    /\ UNCHANGED <<items, clicked, mismatchSeen>>

\* except PlaywrightTimeout as exc
IsPlaywrightTimeout(e) == e.kind = "PlaywrightTimeout"

\* the except clause: a TimeoutError is replaced, anything else passes through
ExceptClause ==
    /\ fpc = "call"
    /\ rpc = "except"
    /\ pending' = IF IsPlaywrightTimeout(pending) THEN TimedOutError ELSE pending
    /\ rpc' = "finally"
    /\ UNCHANGED <<cfgVars, restVars, mainVars, loopVars, pageVars, sessVars, histVars,
                   steps, failStep, mismatchSeen>>

\* mutant: the close at the end of the try block, skipped by an exception
CloseBrowser_Leak(sessions, b) == IF pending = NoError THEN sessions \ {b} ELSE sessions

\* await browser.close()
CloseBrowser(sessions, b) == sessions \ {b}

\* finally: await browser.close(); the call then returns or raises
Finally ==
    /\ fpc = "call"
    /\ rpc = "finally"
    /\ open' = CloseBrowser(open, browser)
    /\ steps' = Append(steps, "close")
    /\ rpc' = "exit"
    /\ outcome' = pending
    /\ failures' = IF pending = NoError THEN failures ELSE failures + 1
    /\ kindsSeen' = IF pending = NoError THEN kindsSeen ELSE kindsSeen \cup {pending.kind}
    /\ succeeded' = (succeeded \/ pending = NoError)
    /\ UNCHANGED <<cfgVars, restVars, mainVars, loopVars, pageVars, browser, launched,
                   pending, failStep, mismatchSeen>>

\* ------------------------------------------------------- fetch_with_retry

\* mutant: a loop without a bound (while True)
HasNextAttempt_Always(att) == TRUE

\* mutant: one iteration too many (range(MAX_RETRIES + 1))
HasNextAttempt_OneMore(att) == att <= MAX_RETRIES

\* for attempt in range(1, MAX_RETRIES + 1): another iteration follows att
HasNextAttempt(att) == att < MAX_RETRIES

\* mutant: a bare except, which catches the cancellation of the task as well
Caught_Everything(e) == TRUE

\* mutant: a structural mismatch is not retried (except RuntimeError only)
Caught_NoMismatch(e) == e.kind \in {"RuntimeError", "PlaywrightError", "IndexError"}

\* except Exception as exc: every error a render attempt raises is caught
Caught(e) == e.kind \in {"RuntimeError", "ValueError", "PlaywrightError", "IndexError"}

\* if attempt < MAX_RETRIES
RetryAllowed(att) == att < MAX_RETRIES

\* mutant: a delay that grows with the attempt number
Delay_Backoff(att) == RETRY_DELAY * att

\* asyncio.sleep(RETRY_DELAY)
Delay(att) == RETRY_DELAY

\* mutant: only the first error is remembered
LastError_First(prev, e) == IF prev = NoAttemptsError THEN e ELSE prev

\* last_error = exc
LastError(prev, e) == e

\* the loop header: the next attempt starts and calls fetch_timetable_html
ForNext ==
    /\ fpc = "for"
    /\ HasNextAttempt(attempt)
    /\ attempt' = attempt + 1
    /\ fpc' = "call"
    /\ rpc' = "launch"
    /\ items' = -1
    /\ clicked' = {}
    /\ browser' = 0
    /\ steps' = <<>>
    /\ failStep' = NoStep
    /\ UNCHANGED <<cfgVars, restVars, mainVars, last_error, delays, result, pending, open,
                   launched, histVars, mismatchSeen>>

\* mutant: the HTML is kept but the loop goes on to the next iteration
FetchReturn_Continue ==
    /\ fpc = "call"
    /\ rpc = "exit"
    /\ pending = NoError
    /\ rpc' = "idle"
    /\ fpc' = "for"
    /\ raw_html' = result
    /\ UNCHANGED <<cfgVars, restVars, mpc, svg_str, document, uncaught, output, writes, stages,
                   attempt, last_error, delays, pageVars, sessVars, histVars,
                   pending, steps, failStep, mismatchSeen>>

\* return await fetch_timetable_html()
FetchReturn ==
    /\ fpc = "call"
    /\ rpc = "exit"
    /\ pending = NoError
    /\ rpc' = "idle"
    /\ fpc' = "done"
    /\ raw_html' = result
    /\ mpc' = "extract"
    /\ UNCHANGED <<cfgVars, restVars, svg_str, document, uncaught, output, writes, stages,
                   attempt, last_error, delays, pageVars, sessVars, histVars,
                   pending, steps, failStep, mismatchSeen>>

\* the except block: remember the error, then sleep if an attempt is left
FetchExcept ==
    /\ fpc = "call"
    /\ rpc = "exit"
    /\ pending # NoError
    /\ rpc' = "idle"
    /\ pending' = NoError
    /\ IF Caught(pending)
          THEN /\ last_error' = LastError(last_error, pending)
               /\ fpc' = IF RetryAllowed(attempt) THEN "sleep" ELSE "for"
               /\ UNCHANGED <<mpc, uncaught>>
          ELSE /\ fpc' = "done"
               /\ mpc' = "failed"
               /\ uncaught' = pending
               /\ UNCHANGED last_error
    /\ UNCHANGED <<cfgVars, restVars, raw_html, svg_str, document, output, writes, stages,
                   attempt, delays, pageVars, sessVars, histVars, steps, failStep,
                   mismatchSeen>>

\* await asyncio.sleep(RETRY_DELAY), then the next iteration
Sleep ==
    /\ fpc = "sleep"
    /\ delays' = Append(delays, Delay(attempt))
    /\ fpc' = "for"
    /\ UNCHANGED <<cfgVars, restVars, mainVars, attempt, last_error, rpc, pageVars, pending,
                   sessVars, histVars, steps, failStep, mismatchSeen>>

\* the loop is exhausted: raise last_error, which leaves main
RaiseLast ==
    /\ fpc = "for"
    /\ ~HasNextAttempt(attempt)
    /\ fpc' = "done"
    /\ mpc' = "failed"
    /\ uncaught' = last_error
    /\ UNCHANGED <<cfgVars, restVars, raw_html, svg_str, document, output, writes, stages,
                   attempt, last_error, delays, rpc, pageVars, pending, sessVars,
                   histVars, steps, failStep, mismatchSeen>>

\* ------------------------------------------------- extract, compose, main

\* mutant: the check for a missing <svg> is lost
HasSvg_Always(html) == TRUE

\* svg = soup.find("svg"); if not svg: raise ValueError
HasSvg(html) == html.svg

\* the patched <svg> of the document: width and height set, the rest kept
extract_and_patch_svg(html) == SvgText(SVG_WIDTH, SVG_HEIGHT, html.rev)

\* datetime.now(TZ).strftime("%H:%M / %Y-%m-%d"); the clock is not modelled
now_str == "HH:MM / YYYY-MM-DD"

\* HTML_TEMPLATE.format(svg=svg_str, updated=now_str())
build_html(s) == Doc(s, now_str)

notRender == <<fpc, attempt, last_error, delays, rpc, pageVars, pending, sessVars,
               histVars, steps, failStep, mismatchSeen>>

\* mutant: the output file is opened for writing before the fetch starts
MainFetch_OpenFirst ==
    /\ mpc = "start"
    /\ mpc' = "fetch"
    /\ stages' = Append(stages, "render")
    /\ fpc' = "for"
    /\ last_error' = NoAttemptsError
    /\ output' = EmptyFile
    /\ UNCHANGED <<cfgVars, restVars, raw_html, svg_str, document, uncaught, writes,
                   attempt, delays, rpc, pageVars, pending, sessVars, histVars,
                   steps, failStep, mismatchSeen>>

\* raw_html = await fetch_with_retry(): the call, with last_error initialised
MainFetch ==
    /\ mpc = "start"
    /\ mpc' = "fetch"
    /\ stages' = Append(stages, "render")
    /\ fpc' = "for"
    /\ last_error' = NoAttemptsError
    /\ UNCHANGED <<cfgVars, restVars, raw_html, svg_str, document, uncaught, output, writes,
                   attempt, delays, rpc, pageVars, pending, sessVars, histVars,
                   steps, failStep, mismatchSeen>>

\* svg_str = extract_and_patch_svg(raw_html)
Extract ==
    /\ mpc = "extract"
    /\ stages' = Append(stages, "extract")
    /\ IF HasSvg(raw_html)
          THEN /\ svg_str' = extract_and_patch_svg(raw_html)
               /\ mpc' = "compose"
               /\ UNCHANGED uncaught
          ELSE /\ mpc' = "failed"
               /\ uncaught' = NoSvgError
               /\ UNCHANGED svg_str
    /\ UNCHANGED <<cfgVars, restVars, raw_html, document, output, writes, notRender>>

\* build_html(svg_str), the argument of write_text
Compose ==
    /\ mpc = "compose"
    /\ stages' = Append(stages, "compose")
    /\ document' = build_html(svg_str)
    /\ mpc' = "publish"
    /\ UNCHANGED <<cfgVars, restVars, raw_html, svg_str, uncaught, output, writes, notRender>>

\* mutant: a failed write is swallowed and the run reports success
Publish_Swallow ==
    /\ mpc = "publish"
    /\ stages' = Append(stages, "publish")
    /\ writes' = writes + 1
    /\ mpc' = "done"
    /\ \/ output' = document
       \/ output' = output
       \/ output' = EmptyFile
    /\ UNCHANGED <<cfgVars, restVars, raw_html, svg_str, document, uncaught, notRender>>

\* OUTPUT_FILE.write_text(...): it completes, or fails at the open or at the write
Publish ==
    /\ mpc = "publish"
    /\ stages' = Append(stages, "publish")
    /\ writes' = writes + 1
    /\ \/ output' = document /\ mpc' = "done" /\ UNCHANGED uncaught
       \/ output' = output /\ mpc' = "failed" /\ uncaught' = WriteError
       \/ output' = EmptyFile /\ mpc' = "failed" /\ uncaught' = WriteError
    /\ UNCHANGED <<cfgVars, restVars, raw_html, svg_str, document, notRender>>

\* ---------------------------------------------------------- specification

Next ==
    \/ MainFetch
    \/ ForNext
    \/ Launch
    \/ NewPage
    \/ Goto
    \/ WaitClasses
    \/ ClickClasses
    \/ WaitPanel
    \/ QueryItems
    \/ Validate
    \/ ClickItem
    \/ WaitSvg
    \/ Settle
    \/ Content
    \/ ExceptClause
    \/ Finally
    \/ FetchReturn
    \/ FetchExcept
    \/ Sleep
    \/ RaiseLast
    \/ Extract
    \/ Compose
    \/ Publish

Spec == Init /\ [][Next]_vars

\* ------------------------------------------------------------- properties

\* the names of the steps the current attempt has started
Ran == {steps[i] : i \in 1..Len(steps)}

\* fetch_with_retry has returned page HTML to main
FetchReturned == fpc = "done" /\ succeeded

\* fetch_with_retry has raised
FetchRaised == fpc = "done" /\ ~succeeded

\* C1: fetch_with_retry makes at most MAX_RETRIES attempts; once an attempt has
\* succeeded no further attempt is started (every earlier attempt failed, the
\* renderer is not entered again) and the HTML of that attempt is what it returns.
C1_FirstSuccessReturned ==
    /\ launched <= MAX_RETRIES
    /\ attempt <= MAX_RETRIES
    /\ succeeded =>
          /\ launched = failures + 1
          /\ outcome = NoError
          /\ rpc \in {"exit", "idle"}
          /\ rpc = "idle" => fpc = "done"
    /\ FetchReturned =>
          /\ raw_html = result
          /\ raw_html \in Pages
          /\ uncaught \in {NoError, NoSvgError, WriteError}

\* C1 witness: MAX_RETRIES - 1 = 2 attempts failed, the third succeeded and its
\* HTML was returned.
C1_Witness ==
    /\ MAX_RETRIES = 3
    /\ FetchReturned
    /\ failures = MAX_RETRIES - 1
    /\ launched = MAX_RETRIES
    /\ raw_html = result
    /\ mpc = "extract"

\* C2: when fetch_with_retry raises, exactly MAX_RETRIES attempts were made, all
\* of them failed, and the error raised is the one the final attempt surfaced,
\* kind, message and arguments unchanged.
C2_LastErrorRaised ==
    FetchRaised =>
        /\ launched = MAX_RETRIES
        /\ failures = MAX_RETRIES
        /\ mpc = "failed"
        /\ MAX_RETRIES >= 1 => uncaught = outcome /\ outcome # NoError

\* C2 witness: three failed attempts, the earlier ones of another kind than the
\* last, whose ValueError is raised.
C2_Witness ==
    /\ MAX_RETRIES = 3
    /\ FetchRaised
    /\ kindsSeen = {"RuntimeError", "PlaywrightError", "ValueError"}
    /\ outcome.kind = "ValueError"
    /\ uncaught = outcome

\* the number of delays taken once `failures` attempts have failed and the except
\* block of the last of them is left
DelaysAfterFailures ==
    IF failures = 0 THEN 0
    ELSE IF failures < MAX_RETRIES THEN failures ELSE MAX_RETRIES - 1

\* C3: every delay is RETRY_DELAY; one delay lies between a failed attempt and
\* the next attempt, none follows a success or the failure of the last attempt:
\* k failures then a success take k delays, an exhausted run MAX_RETRIES - 1.
C3_ConstantDelayBetweenAttempts ==
    /\ \A i \in 1..Len(delays) : delays[i] = RETRY_DELAY
    /\ fpc = "sleep" => failures < MAX_RETRIES /\ Len(delays) = failures - 1
    /\ fpc = "for" => Len(delays) = DelaysAfterFailures
    /\ fpc = "call" /\ rpc # "exit" => Len(delays) = failures
    /\ fpc = "call" /\ rpc = "exit" =>
          Len(delays) = IF pending = NoError THEN failures ELSE failures - 1
    /\ FetchReturned => Len(delays) = failures
    /\ FetchRaised /\ MAX_RETRIES >= 1 => Len(delays) = MAX_RETRIES - 1

\* C3 witness: two failures, two delays of RETRY_DELAY, then the success.
C3_Witness ==
    /\ FetchReturned
    /\ failures = 2
    /\ delays = <<RETRY_DELAY, RETRY_DELAY>>

\* C4: when an attempt concludes (fetch_timetable_html is about to return or
\* raise, or has done so) the session it launched is closed, whatever its outcome.
C4_SessionClosedOnExit ==
    /\ rpc \in {"exit", "idle"} => open = {}
    /\ rpc = "exit" => browser = launched /\ steps[Len(steps)] = "close"

\* C4 witness: an attempt that timed out waiting for the SVG has concluded with
\* its session closed.
C4_Witness ==
    /\ rpc = "exit"
    /\ failStep = [step |-> "wait_svg", how |-> "timeout"]
    /\ pending = TimedOutError
    /\ browser = launched
    /\ browser \notin open

\* C5: at most one session is open; every attempt launches a session of its own
\* (sessions launched = attempts started); only the running attempt's session is
\* ever open, and none is open before the launch of an attempt, during the delay,
\* at the loop header, or once fetch_with_retry has returned or raised.
C5_OneSessionPerAttempt ==
    /\ Cardinality(open) <= 1
    /\ launched = IF fpc = "call" /\ rpc = "launch" THEN attempt - 1 ELSE attempt
    /\ open \subseteq {launched}
    /\ open # {} => fpc = "call" /\ browser = launched
                      /\ rpc \notin {"launch", "exit", "idle"}
    /\ fpc \in {"idle", "for", "sleep", "done"} => open = {}

\* C5 witness: the third attempt runs in the third session, the only one open.
C5_Witness ==
    /\ attempt = 3
    /\ launched = 3
    /\ open = {3}
    /\ rpc = "goto"
    /\ Len(delays) = 2

\* the current attempt failed by a wait or navigation timeout, or by a navigation
\* that failed otherwise (page.goto raising an Error that is no TimeoutError)
TimeoutOrNavigationFailure ==
    \/ /\ failStep.how = "timeout"
       /\ failStep.step \in {"goto", "wait_classes", "wait_panel", "wait_svg"}
    \/ failStep = [step |-> "goto", how |-> "error"]

\* C6, as claimed: what fetch_timetable_html raises after a wait timeout or a
\* navigation failure is always the one RuntimeError of the except clause, and
\* after the failed validation a ValueError, a kind distinct from it.
C6_TimeoutAndNavigationOneKind ==
    rpc \in {"finally", "exit"} =>
        /\ TimeoutOrNavigationFailure => pending = TimedOutError
        /\ failStep.how = "mismatch" =>
              pending.kind = "ValueError" /\ pending.kind # TimedOutError.kind

\* C7, as claimed: once a validation has failed in this run, no dropdown item is
\* clicked, no SVG wait is made and no content is captured any more.
C7_NoInteractionAfterMismatch ==
    mismatchSeen => Ran \cap {"click_item", "wait_svg", "settle", "content"} = {}

\* C7, amended: the attempt whose validation finds len(items) <= CLASS_INDEX
\* ends there with the ValueError naming both counts: it clicks no item, waits
\* for no SVG and captures no content; an item is clicked only with
\* len(items) > CLASS_INDEX; and fetch_with_retry raises that ValueError when
\* the attempt was the last one permitted.
C7_MismatchEndsAttempt ==
    /\ "validate" \in Ran /\ items <= CLASS_INDEX =>
          /\ Ran \cap {"click_item", "wait_svg", "settle", "content"} = {}
          /\ clicked = {}
          /\ failStep = [step |-> "validate", how |-> "mismatch"]
          /\ rpc \in {"except", "finally", "exit", "idle"}
          /\ rpc \in {"except", "finally", "exit"} => pending = MismatchError(items)
          /\ rpc = "idle" => outcome = MismatchError(items)
    /\ "click_item" \in Ran => "validate" \in Ran /\ items > CLASS_INDEX
    /\ FetchRaised /\ failStep.how = "mismatch" =>
          uncaught = MismatchError(items) /\ writes = 0

\* C7 witness: 31 items for ordinal 31 in the last attempt; the run
\* has failed with that ValueError and nothing was clicked in the attempt.
C7_Witness ==
    /\ CLASS_INDEX = CLASS_INDEX_DEFAULT
    /\ FetchRaised
    /\ items = CLASS_INDEX
    /\ failStep.how = "mismatch"
    /\ uncaught = MismatchError(CLASS_INDEX)
    /\ clicked = {}
    /\ "click_item" \notin Ran

\* C8: whatever the kind of the error an attempt raised, the except block of
\* fetch_with_retry remembers it and goes to the delay when an attempt is left,
\* and to the exhausted loop when none is; no error leaves the loop from there.
C8_UniformRetry ==
    [][(fpc = "call" /\ rpc = "exit" /\ pending # NoError) =>
          /\ last_error' = pending
          /\ fpc' = IF attempt < MAX_RETRIES THEN "sleep" ELSE "for"
          /\ mpc' = mpc
          /\ uncaught' = uncaught]_vars

\* C8 witness: an attempt that failed the validation was followed by a delay
\* and the next attempt has started.
C8_Witness ==
    /\ fpc = "call"
    /\ rpc = "launch"
    /\ attempt = 2
    /\ last_error.kind = "ValueError"
    /\ mismatchSeen
    /\ delays = <<RETRY_DELAY>>

\* C9: when the HTML handed to extract_and_patch_svg holds no <svg>, the run
\* has failed with the ValueError of the extraction, nothing can follow (no
\* attempt, no delay: the renderer and the loop are finished and no step is
\* enabled), the composer was not invoked and the file was not touched.
C9_NoSvgFailsAtOnce ==
    /\ "extract" \in {stages[i] : i \in 1..Len(stages)} /\ ~raw_html.svg =>
          /\ mpc = "failed"
          /\ uncaught = NoSvgError
          /\ stages = <<"render", "extract">>
          /\ svg_str = NoSvgText
          /\ document = NoDoc
          /\ writes = 0
          /\ output = OldDoc
          /\ fpc = "done" /\ rpc = "idle" /\ open = {}
          /\ launched = failures + 1
          /\ Len(delays) = failures
          /\ ~ENABLED Next

\* C9 witness: the third attempt returned HTML without an <svg>; the run failed.
C9_Witness ==
    /\ uncaught = NoSvgError
    /\ mpc = "failed"
    /\ raw_html \in Pages
    /\ ~raw_html.svg
    /\ launched = 3
    /\ output = OldDoc

\* the stages in the order main runs them
StageOrder == <<"render", "extract", "compose", "publish">>

\* the write of this run's document completed
WriteCompleted == writes = 1 /\ document # NoDoc /\ output = document

\* C10: the stages are entered in the order render, extract, compose, publish,
\* each at most once and none while the fetch is still active; the file is
\* written at most once, and only with the document made from the HTML of the
\* successful attempt after its extraction succeeded; the run ends in success
\* exactly when that write completed.
C10_SequentialStagesWriteOnce ==
    /\ Len(stages) <= Len(StageOrder)
    /\ \A i \in 1..Len(stages) : stages[i] = StageOrder[i]
    /\ mpc = "start" => stages = <<>>
    /\ mpc = "fetch" => stages = <<"render">>
    /\ mpc = "extract" => stages = <<"render">>
    /\ mpc = "compose" => stages = <<"render", "extract">>
    /\ mpc = "publish" => stages = <<"render", "extract", "compose">>
    /\ mpc \notin {"start", "fetch"} => fpc = "done" /\ rpc = "idle" /\ open = {}
    /\ writes <= 1
    /\ output \in {OldDoc, EmptyFile, document}
    /\ output # OldDoc => writes = 1
    /\ writes = 1 =>
          /\ succeeded
          /\ raw_html = result
          /\ raw_html.svg
          /\ svg_str = SvgText(SVG_WIDTH, SVG_HEIGHT, result.rev)
          /\ document = Doc(svg_str, "HH:MM / YYYY-MM-DD")
          /\ stages = StageOrder
    /\ mpc = "done" <=> WriteCompleted
    /\ mpc = "done" => uncaught = NoError
    /\ mpc = "failed" <=> uncaught # NoError

\* C10 witness: a run that ended in success after two failed attempts, with the
\* document of the third attempt's HTML in the file.
C10_Witness ==
    /\ mpc = "done"
    /\ stages = StageOrder
    /\ failures = 2
    /\ output = Doc(SvgText(SVG_WIDTH, SVG_HEIGHT, result.rev), "HH:MM / YYYY-MM-DD")
    /\ result.rev = 2

\* C11, as claimed: an item is clicked only at a subscript within
\* 0 <= index < len(items), and once the validation has run with the configured
\* ordinal outside that range (negative ordinals included) the attempt has
\* failed with the mismatch error and clicked nothing.
C11_ClickedWithinBounds ==
    /\ \A i \in clicked : 0 <= i /\ i < items
    /\ "validate" \in Ran /\ ~(0 <= CLASS_INDEX /\ CLASS_INDEX < items) =>
          /\ failStep = [step |-> "validate", how |-> "mismatch"]
          /\ clicked = {}

\* ------------------------------------- extract_and_patch_svg on a DOM tree
\* The parsed document is the sequence of its elements in document order; an
\* element names its parent by position (0: a top-level element).

\* Elements of a document that is drawn.
MaxNodes == 4

Tags == {"svg", "g", "rect"}

\* an element as the parser yields it: no size, no transform
Node(t, p) == [tag |-> t, parent |-> p, width |-> 0, height |-> 0, transform |-> ""]

RECURSIVE AncestorsOrSelf(_, _)
\* element i of d and the elements that enclose it
AncestorsOrSelf(d, i) ==
    IF i = 0 THEN {} ELSE {i} \cup AncestorsOrSelf(d, d[i].parent)

\* d lists a forest in document order: the parent of an element is the element
\* before it or one that encloses that one
IsDocument(d) ==
    \A i \in DOMAIN d :
        d[i].parent \in (IF i = 1 THEN {} ELSE AncestorsOrSelf(d, i - 1)) \cup {0}

\* the documents with n elements
DocumentsOf(n) ==
    {d \in [1..n -> {Node(t, p) : t \in Tags, p \in 0..(n - 1)}] : IsDocument(d)}

\* the elements below element i of d
Descendants(d, i) == {j \in DOMAIN d : j # i /\ i \in AncestorsOrSelf(d, j)}

Least(S) == CHOOSE x \in S : \A y \in S : x <= y

\* soup.find(name) and tag.find(name): the first match in document order among
\* the elements of S, 0 when there is none
Find(d, S, name) ==
    LET M == {j \in S : d[j].tag = name} IN IF M = {} THEN 0 ELSE Least(M)

\* the <g> that receives the transform: svg.find("g") searches all descendants
FirstG(d, root) == Find(d, Descendants(d, root), "g")

\* str(svg): the subtree of root in document order, parents renumbered
Serialize(d, root) ==
    LET n == Cardinality(Descendants(d, root)) IN
    [k \in 1..(n + 1) |->
        LET e == d[root + k - 1] IN
        [e EXCEPT !.parent = IF k = 1 THEN 0 ELSE e.parent - (root - 1)]]

\* extract_and_patch_svg(html) on the parsed html: the patched markup, or the
\* ValueError when the document holds no <svg>
PatchSvg(d) ==
    LET root == Find(d, DOMAIN d, "svg") IN
    IF root = 0 THEN [error |-> NoSvgError, svg |-> <<>>]
    ELSE LET g == FirstG(d, root)
             sized == [d EXCEPT ![root].width = SVG_WIDTH, ![root].height = SVG_HEIGHT]
             patched == IF g = 0 THEN sized
                        ELSE [sized EXCEPT ![g].transform = "scale(0.3)"]
         IN  [error |-> NoError, svg |-> Serialize(patched, root)]

InitExtract ==
    /\ MAX_RETRIES = MaxRetriesBound
    /\ CLASS_INDEX = CLASS_INDEX_DEFAULT
    /\ RunInit
    /\ xpc = "input"
    /\ \E n \in 1..MaxNodes : xin \in DocumentsOf(n)
    /\ xout = <<>>
    /\ xout2 = <<>>

\* svg_str = extract_and_patch_svg(raw_html) on the document drawn
ExtractTree ==
    /\ xpc = "input"
    /\ xout' = PatchSvg(xin)
    /\ xpc' = "once"
    /\ UNCHANGED <<pipeVars, xin, xout2>>

SpecExtract == InitExtract /\ [][ExtractTree]_vars

\* the first <svg> of the document drawn, 0 if it has none
InSvg == Find(xin, DOMAIN xin, "svg")

\* the position in the output of the first <g> that is a direct child of the <svg>
FirstChildG ==
    LET M == {k \in DOMAIN xout.svg : xout.svg[k].tag = "g" /\ xout.svg[k].parent = 1}
    IN  IF M = {} THEN 0 ELSE Least(M)

\* C12, as claimed: for a document with an <svg>, the output is that <svg> with
\* width 900 and height 600, and the transform scale(0.3) on its first direct
\* child <g> and on no other element; without a direct child <g> no transform
\* is set at all.
C12_TransformOnFirstChildG ==
    xpc = "once" /\ InSvg # 0 =>
        /\ xout.error = NoError
        /\ xout.svg[1].tag = "svg"
        /\ xout.svg[1].width = SVG_WIDTH /\ xout.svg[1].height = SVG_HEIGHT
        /\ \A k \in DOMAIN xout.svg :
              xout.svg[k].transform =
                  IF k = FirstChildG THEN "scale(0.3)" ELSE ""

\* ------------------------------------------- the style rewrite, as text
\* A style value is the sequence of the fragments it is written with; the
\* pattern of the rewrite is three of them in a row.

\* Fragments of a style value that is drawn.
MaxStyleLen == 6

StyleFragments ==
    {"position: absolute; ", "left: 0px; ", "top: 0px;", "position: relative;",
     "color: red;"}

\* "position: absolute; left: 0px; top: 0px;"
AbsoluteAtOrigin == <<"position: absolute; ", "left: 0px; ", "top: 0px;">>

\* "position: relative;"
Relative == <<"position: relative;">>

RECURSIVE Replace(_, _, _)
\* str.replace(old, new): every occurrence, left to right, none overlapping
Replace(str, old, new) ==
    IF Len(str) < Len(old) THEN str
    ELSE IF SubSeq(str, 1, Len(old)) = old
         THEN new \o Replace(SubSeq(str, Len(old) + 1, Len(str)), old, new)
         ELSE <<Head(str)>> \o Replace(Tail(str), old, new)

RECURSIVE ReplaceFirst(_, _, _)
\* str.replace(old, new, 1): the first occurrence only
ReplaceFirst(str, old, new) ==
    IF Len(str) < Len(old) THEN str
    ELSE IF SubSeq(str, 1, Len(old)) = old
         THEN new \o SubSeq(str, Len(old) + 1, Len(str))
         ELSE <<Head(str)>> \o ReplaceFirst(Tail(str), old, new)

\* mutant: only the first occurrence in a style value is rewritten
StyleRewrite_FirstOnly(style) == ReplaceFirst(style, AbsoluteAtOrigin, Relative)

\* tag["style"].replace("position: absolute; left: 0px; top: 0px;", "position: relative;")
StyleRewrite(style) == Replace(style, AbsoluteAtOrigin, Relative)

InitStyle ==
    /\ MAX_RETRIES = MaxRetriesBound
    /\ CLASS_INDEX = CLASS_INDEX_DEFAULT
    /\ RunInit
    /\ xpc = "input"
    /\ \E n \in 0..MaxStyleLen : xin \in [1..n -> StyleFragments]
    /\ xout = <<>>
    /\ xout2 = <<>>

\* the rewrite of a style value found in the page
RewriteOnce ==
    /\ xpc = "input"
    /\ xout' = StyleRewrite(xin)
    /\ xpc' = "once"
    /\ UNCHANGED <<pipeVars, xin, xout2>>

\* the rewrite of a style value that was rewritten before
RewriteTwice ==
    /\ xpc = "once"
    /\ xout2' = StyleRewrite(xout)
    /\ xpc' = "twice"
    /\ UNCHANGED <<pipeVars, xin, xout>>

NextStyle == RewriteOnce \/ RewriteTwice

SpecStyle == InitStyle /\ [][NextStyle]_vars

\* the positions of str at which pat occurs
Occurrences(str, pat) ==
    {i \in 1..(Len(str) - Len(pat) + 1) : SubSeq(str, i, i + Len(pat) - 1) = pat}

\* str without the fragments of the pattern and of its replacement
Others(str) ==
    SelectSeq(str, LAMBDA f : f = "color: red;")

\* C13: the second application of the style rewrite returns what the first
\* returned; the first leaves no occurrence of the absolute-at-origin pattern,
\* puts one relative declaration in place of each occurrence, and keeps the
\* other declarations, in their order; a value without the pattern (one that
\* declares relative positioning, say) is returned as it is.
C13_StyleRewriteIdempotent ==
    /\ xpc = "twice" => xout2 = xout
    /\ xpc \in {"once", "twice"} =>
          /\ Occurrences(xout, AbsoluteAtOrigin) = {}
          /\ Len(xout) = Len(xin) - 2 * Cardinality(Occurrences(xin, AbsoluteAtOrigin))
          /\ Others(xout) = Others(xin)
          /\ Occurrences(xin, AbsoluteAtOrigin) = {} => xout = xin

\* C13 witness: a value with another declaration, the pattern and a relative
\* declaration was rewritten twice; the first application changed it.
C13_Witness ==
    /\ xpc = "twice"
    /\ xin = <<"color: red;", "position: absolute; ", "left: 0px; ", "top: 0px;",
               "position: relative;">>
    /\ xout = <<"color: red;", "position: relative;", "position: relative;">>
    /\ xout2 = xout

\* ------------------------------------------------ build_html, as text
\* Text is the sequence of the pieces it is written with; a brace is a piece
\* of its own, and so is every character of the timestamp.

\* Pieces between <svg and </svg> of a markup string that is drawn.
MaxSvgLen == 3

Digits == <<"0", "1", "2", "3", "4", "5", "6", "7", "8", "9">>

Digit(k) == Digits[k + 1]

\* %H, %M, %m, %d: two digits, zero padded
Pad2(n) == <<Digit(n \div 10), Digit(n % 10)>>

\* %Y of a year of four digits
Pad4(n) == <<Digit(n \div 1000), Digit((n \div 100) % 10)>> \o Pad2(n % 100)

\* values of datetime.now(TZ) that are drawn
Clock ==
    [hour : {0, 9, 23}, minute : {5, 59}, year : {2026}, month : {1, 12}, day : {9}]

\* now_str(): datetime.now(TZ).strftime("%H:%M / %Y-%m-%d") at the time t
NowStr(t) ==
    Pad2(t.hour) \o <<":">> \o Pad2(t.minute) \o <<" ", "/", " ">>
        \o Pad4(t.year) \o <<"-">> \o Pad2(t.month) \o <<"-">> \o Pad2(t.day)

Text(v) == [k |-> "text", v |-> v]
Field(v) == [k |-> "field", v |-> v]
\* "{{" and "}}" of a format string
LBrace == [k |-> "{{", v |-> "{"]
RBrace == [k |-> "}}", v |-> "}"]

\* HTML_TEMPLATE, parsed as str.format parses it
HTML_TEMPLATE ==
    << Text("<!doctype html> ... <style> *, *::before, *::after "),
       LBrace, Text(" box-sizing: border-box; "), RBrace,
       Text(" body "), LBrace, Text(" margin: 0; ... "), RBrace,
       Text(" h1 "), LBrace, Text(" margin: 0 0 0.5rem; ... "), RBrace,
       Text(" .svg-wrapper "), LBrace, Text(" background: #fff; ... "), RBrace,
       Text(" .last-updated "), LBrace, Text(" margin-top: 0.75rem; ... "), RBrace,
       Text(" </style> ... <div class=svg-wrapper> "),
       Field("svg"),
       Text(" </div> <p class=last-updated>Last updated: "),
       Field("updated"),
       Text("</p> </body> </html>") >>

RECURSIVE Format(_, _)
\* str.format(**args): one pass over the format string; a doubled brace yields
\* a single one, a field yields its argument, which is not read again
Format(template, args) ==
    IF template = <<>> THEN <<>>
    ELSE LET tok == Head(template) IN
         (IF tok.k = "field" THEN args[tok.v] ELSE <<tok.v>>)
             \o Format(Tail(template), args)

RECURSIVE Source(_)
\* the text of a format string as it is written in the source
Source(template) ==
    IF template = <<>> THEN <<>>
    ELSE LET tok == Head(template) IN
         (CASE tok.k = "field" -> <<"{", tok.v, "}">>
            [] tok.k = "{{" -> <<"{", "{">>
            [] tok.k = "}}" -> <<"}", "}">>
            [] OTHER -> <<tok.v>>)
             \o Source(Tail(template))

\* mutant: placeholders filled by chained str.replace on the template text,
\* the second of which reads the inserted markup again
Compose_ChainedReplace(svg, updated) ==
    Replace(Replace(Source(HTML_TEMPLATE), <<"{", "svg", "}">>, svg),
            <<"{", "updated", "}">>, updated)

\* HTML_TEMPLATE.format(svg=svg_str, updated=...)
ComposeText(svg, updated) ==
    Format(HTML_TEMPLATE, [svg |-> svg, updated |-> updated])

\* pieces a patched markup string may hold between its tags
SvgPieces == {"{", "}", "svg", "updated", "<g></g>"}

\* str(svg): the markup strings that are drawn
SvgStrings ==
    UNION {{<<"<svg>">> \o body \o <<"</svg>">> : body \in [1..n -> SvgPieces]}
           : n \in 0..MaxSvgLen}

InitCompose ==
    /\ MAX_RETRIES = MaxRetriesBound
    /\ CLASS_INDEX = CLASS_INDEX_DEFAULT
    /\ RunInit
    /\ xpc = "input"
    /\ xin \in [svg : SvgStrings, now : Clock]
    /\ xout = <<>>
    /\ xout2 = <<>>

\* build_html(svg_str) at the time xin.now
ComposeOnce ==
    /\ xpc = "input"
    /\ xout' = ComposeText(xin.svg, NowStr(xin.now))
    /\ xpc' = "once"
    /\ UNCHANGED <<pipeVars, xin, xout2>>

SpecCompose == InitCompose /\ [][ComposeOnce]_vars

IsDigit(c) == \E k \in 0..9 : c = Digit(k)

\* HH:MM / YYYY-MM-DD: 18 characters, digits and punctuation in their places
IsTimestamp(str) ==
    /\ Len(str) = 18
    /\ \A i \in 1..18 :
          CASE i = 3 -> str[i] = ":"
            [] i \in {6, 8} -> str[i] = " "
            [] i = 7 -> str[i] = "/"
            [] i \in {13, 16} -> str[i] = "-"
            [] OTHER -> IsDigit(str[i])

\* the positions of the document at which a timestamp stands
TimestampsIn(str) ==
    {i \in 1..(Len(str) - 17) : IsTimestamp(SubSeq(str, i, i + 17))}

\* C14: for every markup string, braces and placeholder names included, the
\* document build_html returns holds that markup exactly once, unchanged, and
\* exactly one timestamp of the form HH:MM / YYYY-MM-DD, the one of the clock,
\* after it; the doubled braces of the template come out single.
C14_OneSvgOneTimestamp ==
    xpc = "once" =>
        /\ Cardinality(Occurrences(xout, xin.svg)) = 1
        /\ Cardinality(TimestampsIn(xout)) = 1
        /\ \A i \in TimestampsIn(xout) :
              /\ SubSeq(xout, i, i + 17) = NowStr(xin.now)
              /\ \A j \in Occurrences(xout, xin.svg) : j + Len(xin.svg) <= i
        /\ Len(xout) = Len(HTML_TEMPLATE) - 2 + Len(xin.svg) + 18

\* C14 witness: markup holding the placeholder {updated} was composed at
\* 09:05 on 2026-01-09.
C14_Witness ==
    /\ xpc = "once"
    /\ xin.svg = <<"<svg>", "{", "updated", "}", "</svg>">>
    /\ xin.now = [hour |-> 9, minute |-> 5, year |-> 2026, month |-> 1, day |-> 9]
    /\ Occurrences(xout, <<"0", "9", ":", "0", "5", " ", "/", " ", "2", "0", "2", "6",
                            "-", "0", "1", "-", "0", "9">>) # {}

\* ------------------------------------------- properties of the protocol

\* the steps of a render attempt in the order of the source
StepOrder ==
    <<"launch", "new_page", "goto", "wait_classes", "click_classes", "wait_panel",
      "query_items", "validate", "click_item", "wait_svg", "settle", "content">>

\* the steps of the current attempt, the closing of the browser apart
Protocol ==
    IF steps # <<>> /\ steps[Len(steps)] = "close"
    THEN SubSeq(steps, 1, Len(steps) - 1) ELSE steps

\* C15: the steps an attempt has started are an initial part of the fixed
\* order (navigate, wait for the trigger, click it, wait for the panel,
\* enumerate, validate, click the item, wait for the SVG, settle, capture); the
\* step about to run is the successor of the last one, which did not fail; and
\* the step that failed is the last one started: none after it is executed.
C15_ProtocolOrder ==
    /\ Len(Protocol) <= Len(StepOrder)
    /\ \A i \in 1..Len(Protocol) : Protocol[i] = StepOrder[i]
    /\ fpc = "call" /\ rpc \notin {"except", "finally", "exit"} =>
          /\ failStep = NoStep
          /\ Len(Protocol) < Len(StepOrder)
          /\ rpc = StepOrder[Len(Protocol) + 1]
    /\ failStep # NoStep =>
          /\ Protocol # <<>>
          /\ Protocol[Len(Protocol)] = failStep.step
          /\ rpc \in {"except", "finally", "exit", "idle"}
    /\ "click_classes" \in Ran =>
          "wait_classes" \in Ran /\ failStep.step # "wait_classes"

\* C15 witness: the wait for the trigger timed out; the attempt ended with the
\* trigger never clicked.
C15_Witness ==
    /\ rpc = "exit"
    /\ failStep = [step |-> "wait_classes", how |-> "timeout"]
    /\ steps = <<"launch", "new_page", "goto", "wait_classes", "close">>

\* C16: the settle delay runs only in an attempt whose wait for the SVG
\* succeeded, and an attempt returns page HTML only after that wait succeeded
\* and the settle delay completed; an attempt in which a step failed returns
\* no HTML.
C16_SettleAfterSvgReady ==
    /\ "settle" \in Ran => "wait_svg" \in Ran /\ failStep.step # "wait_svg"
    /\ failStep.step = "wait_svg" => Ran \cap {"settle", "content"} = {}
    /\ rpc \in {"finally", "exit"} /\ pending = NoError =>
          /\ failStep = NoStep
          /\ Protocol = StepOrder
          /\ result \in Pages
    /\ rpc \in {"finally", "exit"} /\ failStep # NoStep => pending # NoError

\* C16 witness: the second attempt waited for the SVG, settled, captured the
\* page and is returning its HTML.
C16_Witness ==
    /\ rpc = "exit"
    /\ attempt = 2
    /\ pending = NoError
    /\ result \in Pages
    /\ steps = StepOrder \o <<"close">>

\* ------------------------------------------------------------ termination

\* The event loop runs the one task whenever it can take a step, and every
\* awaited call returns, times out or fails: a step that is enabled is taken.
FairSpec == Spec /\ WF_vars(Next)

\* the run is over, in success or in failure
Terminated == mpc \in {"done", "failed"}

\* C17: every run terminates, in success or failure; at no time have more than
\* MAX_RETRIES attempts been started or more than MAX_RETRIES - 1 delays been
\* taken (none when MAX_RETRIES is 0).
C17_Terminates ==
    /\ [](/\ launched <= MAX_RETRIES
          /\ attempt <= MAX_RETRIES
          /\ Len(delays) <= (IF MAX_RETRIES = 0 THEN 0 ELSE MAX_RETRIES - 1))
    /\ <>Terminated

\* C17 witness: a run that ended in failure after three attempts and two delays.
C17_Witness ==
    /\ MAX_RETRIES = 3
    /\ Terminated
    /\ mpc = "failed"
    /\ launched = 3
    /\ Len(delays) = 2

\* ----------------------------------------------------------- cancellation
\* The caller cancels the task once, while it is suspended in an await of the
\* try block or in the delay between attempts.

\* the steps of the try block that await the browser
AwaitPoints ==
    {"new_page", "goto", "wait_classes", "click_classes", "wait_panel",
     "query_items", "click_item", "wait_svg", "settle", "content"}

\* the task is cancelled while suspended in the awaited call of the step rpc
CancelAwait ==
    /\ cancelled = NotCancelled
    /\ fpc = "call"
    /\ rpc \in AwaitPoints
    /\ rpc = "click_item" => ~(CLASS_INDEX < 0 - items)
    /\ steps' = Append(steps, rpc)
    /\ Raise(rpc, "cancelled", CancelledError)
    /\ cancelled' = [at |-> rpc, launched |-> launched, delays |-> Len(delays)]
    /\ UNCHANGED <<cfgVars, unitVars, mainVars, loopVars, pageVars, sessVars,
                   histVars, mismatchSeen>>

\* the task is cancelled in asyncio.sleep(RETRY_DELAY): the error is raised in
\* the except block and leaves fetch_with_retry and main
CancelSleep ==
    /\ cancelled = NotCancelled
    /\ fpc = "sleep"
    /\ fpc' = "done"
    /\ mpc' = "failed"
    /\ uncaught' = CancelledError
    /\ cancelled' = [at |-> "sleep", launched |-> launched, delays |-> Len(delays)]
    /\ UNCHANGED <<cfgVars, unitVars, raw_html, svg_str, document, output, writes,
                   stages, attempt, last_error, delays, rpc, pageVars, pending,
                   sessVars, histVars, steps, failStep, mismatchSeen>>

NextCancel == Next \/ CancelAwait \/ CancelSleep

SpecCancel == Init /\ [][NextCancel]_vars

\* C18: once the run is cancelled (in the navigation, a wait, the settle delay
\* or the delay between attempts) the cancellation is not caught as a failure
\* to retry: no attempt is started and no delay taken after it, the file is not
\* written, the session of the cancelled attempt is closed when the attempt
\* ends, and the run ends with the cancellation itself.
C18_CancellationNotRetried ==
    cancelled # NotCancelled =>
        /\ launched = cancelled.launched
        /\ Len(delays) = cancelled.delays
        /\ last_error.kind # "CancelledError"
        /\ ~succeeded
        /\ writes = 0 /\ output = OldDoc
        /\ rpc \in {"except", "finally", "exit", "idle"}
        /\ fpc \in {"call", "done"}
        /\ rpc \in {"exit", "idle"} => open = {}
        /\ rpc = "idle" =>
              /\ fpc = "done"
              /\ mpc = "failed"
              /\ uncaught = CancelledError
              /\ ~ENABLED NextCancel

\* C18 witness: the second attempt was cancelled in the settle delay; the run
\* ended with the cancellation, the session closed.
C18_Witness ==
    /\ cancelled.at = "settle"
    /\ attempt = 2
    /\ MAX_RETRIES = 3
    /\ mpc = "failed"
    /\ uncaught = CancelledError
    /\ browser = 2
    /\ open = {}

\* --------------------------------------------------------- output artifact

\* C19 as stated: a run that has failed, for whatever reason, has left the
\* output file as it was before the run.
C19_FailedRunKeepsOutput ==
    mpc = "failed" => output = OldDoc

\* C19 amended: the file is as it was until write_text is called, so a run that
\* fails in the fetch (attempts exhausted) or in the extraction (no SVG found)
\* leaves it untouched; these and a failure of write_text are the only ways to
\* fail, and a failed write_text leaves the file as it was or truncated.
C19_FailureBeforeWriteKeepsOutput ==
    /\ writes = 0 => output = OldDoc
    /\ mpc = "failed" =>
          \/ FetchRaised /\ uncaught = last_error /\ writes = 0 /\ output = OldDoc
          \/ FetchReturned /\ uncaught = NoSvgError /\ writes = 0 /\ output = OldDoc
          \/ FetchReturned /\ uncaught = WriteError /\ writes = 1
                /\ output \in {OldDoc, EmptyFile}

\* C19 witness: the third attempt returned a page without an svg element, the
\* extraction failed and the file is the previous snapshot.
C19_Witness ==
    /\ mpc = "failed"
    /\ uncaught = NoSvgError
    /\ attempt = 3
    /\ failures = 2
    /\ stages = <<"render", "extract">>
    /\ writes = 0
    /\ output = OldDoc

\* ---------------------------------------------------------- attempt counter

\* C20: while an attempt runs (and in the delay after it) the counter is within
\* 1..MAX_RETRIES; with MAX_RETRIES >= 1 the error fetch_with_retry raises is
\* the error of an attempt that was made; "No attempts made" is raised exactly
\* when MAX_RETRIES < 1, and then no session was launched and no delay taken.
C20_AttemptCounterInRange ==
    /\ fpc \in {"call", "sleep"} => attempt \in 1..MAX_RETRIES
    /\ (FetchRaised /\ MAX_RETRIES >= 1) =>
          /\ uncaught = outcome
          /\ uncaught # NoAttemptsError
          /\ failures = MAX_RETRIES
          /\ launched = MAX_RETRIES
    /\ FetchRaised => (uncaught = NoAttemptsError <=> MAX_RETRIES < 1)
    /\ MAX_RETRIES < 1 => launched = 0 /\ delays = <<>> /\ attempt = 0

\* C20 witness: with MAX_RETRIES = 0 the loop body never ran and the
\* placeholder error ended the run.
C20_Witness ==
    /\ MAX_RETRIES = 0
    /\ FetchRaised
    /\ mpc = "failed"
    /\ uncaught = NoAttemptsError
    /\ launched = 0
    /\ delays = <<>>

====
